---- MODULE Spec2Model ----
(***************************************************************************)
(* Model of the power-grid digital twin (src/app.py): the simulation loop  *)
(* simulation_worker_refactored / sim_step, the fault ledger FAULT_STATE,  *)
(* the sensor map SENSOR_STATE, the trigger_fault command and the          *)
(* get_status read path.                                                   *)
(*                                                                         *)
(* Units: voltages are integers in millivolts, currents in milliamperes,   *)
(* time in whole seconds.  round(x, 2) therefore yields multiples of 10.   *)
(***************************************************************************)
EXTENDS Integers, Sequences, FiniteSets, TLC

VARIABLES
    now,            \* time.time(), whole seconds
    assets,         \* rows of table assets (the registry), in id order
    homes,          \* rows of table smart_homes, in id order
    SENSOR_STATE,   \* dict key -> published voltage
    FAULT_STATE,    \* dict key -> [type, end_time]
    pc,             \* position of the simulation thread
    t,              \* sim loop: t = time.time() of the current tick
    targets,        \* sim loop: grid_assets then homes, as read by this tick
    i,              \* sim loop: index of the target the for loops are at
    simulated_value,\* sim_step local
    fault,          \* sim_step local: the dict object read from FAULT_STATE
    outcome,        \* sim_step: what step 3 (fault injection) did
    tick_ok,        \* whether the last registry read of the loop succeeded
    tick_out,       \* the values computed so far by the current tick
    nreq,           \* number of trigger_fault requests served
    request,        \* request.json of the last request served
    response,       \* HTTP status of the last trigger_fault response
    status          \* body of the last /api/status response

vars == << now, assets, homes, SENSOR_STATE, FAULT_STATE, pc, t, targets, i,
           simulated_value, fault, outcome, tick_ok, tick_out, nreq, request,
           response, status >>

simVars == << pc, t, targets, i, simulated_value, fault, outcome, tick_ok,
              tick_out >>
httpVars == << nreq, request, response >>

----------------------------------------------------------------------------
(* Bounds of the model *)

MaxTime == 3
MaxTimeE2E == 11
MaxRequests == 2
MaxHomes == 2
MaxVolt == 20

(* Program constants *)

HOME_RATED_V == 230000
SURGE_V == 265000
HOME_PROTECT_V == 255000
HOME_WEAR_MA == 18500
HOME_STRAIN_MA == 15000
DEFAULT_LOAD_MA == 10000
DEFAULT_DURATION == 10
SLEEP_SECONDS == 1

\* simulated_value is held in units of 1/VDEN millivolt, so that the
\* factors 0.05, 0.65 and 1.40 stay exact
VDEN == 20

None == [type |-> "None", end_time |-> 0]

\* request.json of a request without a body
NoData == [x \in {} |-> 0]

----------------------------------------------------------------------------
(* Registry seed data *)

seed_data ==
    << [id |-> 1, type |-> "Generation",   rated_voltage |-> 11000000, impedance10 |-> 52],
       [id |-> 2, type |-> "Transmission", rated_voltage |-> 33000000, impedance10 |-> 125],
       [id |-> 3, type |-> "Distribution", rated_voltage |-> 400000,   impedance10 |-> 11] >>

seed_homes == << [id |-> 1] >>

GridFaults == {"Voltage Dip", "Voltage Spike", "Zero Voltage"}
HomeFaults == {"Grid Surge", "Home Wear"}

----------------------------------------------------------------------------
(* Arithmetic helpers *)

Abs(x) == IF x < 0 THEN -x ELSE x

\* n / d rounded to the nearest integer, ties to even (Python round), d > 0
RoundDiv(n, d) ==
    LET q == n \div d
        r == n % d
    IN  IF 2 * r < d THEN q
        ELSE IF 2 * r > d THEN q + 1
        ELSE IF q % 2 = 0 THEN q ELSE q + 1

\* round(num/den millivolts, 2): a multiple of 10 mV
Round2(num, den) == 10 * RoundDiv(num, 10 * den)

----------------------------------------------------------------------------
(* Load model.  random.uniform is drawn from the two ends of its range     *)
(* (wide), or from the middle alone.                                       *)

\* random.uniform(-0.01, 0.01), in units of 1e-4
NoiseSamples(wide) == IF wide THEN {-100, 100} ELSE {0}

\* base + random.uniform(lo, hi), in mA
Uniform(base, lo, hi, wide) ==
    IF wide THEN {base + lo, base + hi} ELSE {base}

GenerationModule(wide) == Uniform(50000, -5000, 5000, wide)
TransmissionModule(wide) == Uniform(120000, -10000, 10000, wide)
DistributionModule(wide) == Uniform(30000, -2000, 2000, wide)
SmartHomeModule(wide) == Uniform(8000, -1000, 3000, wide)

get_module_load(asset_type, wide) ==
    IF asset_type = "Generation" THEN GenerationModule(wide)
    ELSE IF asset_type = "Transmission" THEN TransmissionModule(wide)
    ELSE IF asset_type = "Distribution" THEN DistributionModule(wide)
    ELSE IF asset_type = "Smart Home" THEN SmartHomeModule(wide)
    ELSE {DEFAULT_LOAD_MA}

----------------------------------------------------------------------------
(* Keys and dict helpers *)

\* mutant: the key drops the grid/home tag
Key_IdOnly(db_id, is_home) == << "grid", db_id >>

Key(db_id, is_home) ==
    IF is_home THEN << "home", db_id >> ELSE << "grid", db_id >>

Has(d, k) == k \in DOMAIN d

DictSet(d, k, v) == (k :> v) @@ d

DictDel(d, k) == [x \in DOMAIN d \ {k} |-> d[x]]

\* FAULT_STATE.get(key)
FaultGet(d, k) == IF Has(d, k) THEN d[k] ELSE None

----------------------------------------------------------------------------
(* Digital twin analyzer *)

\* rated - load * impedance, in mV (load is a multiple of 10 mA)
calculate_expected_voltage(rated_voltage, current_load, impedance10) ==
    rated_voltage - (current_load \div 10) * impedance10

\* mutant: the guard on an expected value of 0 is missing
analyze_health_NoZeroGuard(real_value, expected_value) ==
    IF Abs(real_value - expected_value) * 10 > Abs(expected_value) THEN "CRITICAL"
    ELSE IF Abs(real_value - expected_value) * 20 > Abs(expected_value) THEN "WARNING"
    ELSE "NORMAL"

\* mutant: the thresholds are inclusive
analyze_health_Inclusive(real_value, expected_value) ==
    IF expected_value = 0 THEN "CRITICAL"
    ELSE IF Abs(real_value - expected_value) * 10 >= Abs(expected_value) THEN "CRITICAL"
    ELSE IF Abs(real_value - expected_value) * 20 >= Abs(expected_value) THEN "WARNING"
    ELSE "NORMAL"

\* abs((real - expected) / expected) * 100 > 10 is |real - expected| * 10 > |expected|
analyze_health(real_value, expected_value) ==
    IF expected_value = 0 THEN "CRITICAL"
    ELSE IF Abs(real_value - expected_value) * 10 > Abs(expected_value) THEN "CRITICAL"
    ELSE IF Abs(real_value - expected_value) * 20 > Abs(expected_value) THEN "WARNING"
    ELSE "NORMAL"

\* mutant: the two comparisons are the wrong way round
get_recommendation_Swapped(real_value, expected_value, health_status) ==
    IF health_status = "NORMAL" THEN "System Optimal. No Action Required."
    ELSE IF real_value > expected_value
        THEN "Possible Overload. Inspect Transformer Tap Changer."
    ELSE IF real_value < expected_value
        THEN "Load Rejection. Check for Capacitor Bank malfunction."
    ELSE "Anomaly Detected. Manual Inspection Required."

get_recommendation(real_value, expected_value, health_status) ==
    IF health_status = "NORMAL" THEN "System Optimal. No Action Required."
    ELSE IF real_value < expected_value
        THEN "Possible Overload. Inspect Transformer Tap Changer."
    ELSE IF real_value > expected_value
        THEN "Load Rejection. Check for Capacitor Bank malfunction."
    ELSE "Anomaly Detected. Manual Inspection Required."

\* mutant: the current is tested before the voltage
analyze_home_iot_CurrentFirst(voltage, current) ==
    IF current > HOME_STRAIN_MA
        THEN << "WARNING", "High Current. Check AC Compressor Health." >>
    ELSE IF voltage > HOME_PROTECT_V
        THEN << "PROTECTION ACTIVE", "Surge Detected. Power Cut to Save Appliances." >>
    ELSE << "NORMAL", "Home System Nominal." >>

analyze_home_iot(voltage, current) ==
    IF voltage > HOME_PROTECT_V
        THEN << "PROTECTION ACTIVE", "Surge Detected. Power Cut to Save Appliances." >>
    ELSE IF current > HOME_STRAIN_MA
        THEN << "WARNING", "High Current. Check AC Compressor Health." >>
    ELSE << "NORMAL", "Home System Nominal." >>

----------------------------------------------------------------------------
\* the state once init_db has seeded the registry and the threads start
InitWith(grid_rows, home_rows) ==
    /\ now = 0
    /\ assets = grid_rows
    /\ homes = home_rows
    /\ SENSOR_STATE = << >>
    /\ FAULT_STATE = << >>
    /\ pc = "fetch"
    /\ t = 0
    /\ targets = << >>
    /\ i = 1
    /\ simulated_value = 0
    /\ fault = None
    /\ outcome = "none"
    /\ tick_ok = TRUE
    /\ tick_out = << >>
    /\ nreq = 0
    /\ request = NoData
    /\ response = 0
    /\ status = << >>

Init == InitWith(seed_data, seed_homes)

----------------------------------------------------------------------------
(* sim_step, steps 1-2: noise and load-derived drop (units of 1/VDEN mV) *)

Baseline(rated_v, noise, load) ==
    VDEN * (rated_v + (rated_v \div 10000) * noise) - load

\* mutant: the Zero Voltage branch is missing
ApplyFault_NoZero(f_type, v) ==
    IF f_type = "Voltage Dip" THEN (v \div VDEN) * 13
    ELSE IF f_type = "Voltage Spike" THEN (v \div VDEN) * 28
    ELSE IF f_type = "Grid Surge" THEN VDEN * SURGE_V
    ELSE v

\* sim_step, step 3: the override a fault type puts on the value.  v is a
\* whole number of millivolts here (a multiple of VDEN), so v * 0.65 is
\* (v / VDEN) * 13 and v * 1.40 is (v / VDEN) * 28, exactly
ApplyFault(f_type, v) ==
    IF f_type = "Voltage Dip" THEN (v \div VDEN) * 13
    ELSE IF f_type = "Voltage Spike" THEN (v \div VDEN) * 28
    ELSE IF f_type = "Zero Voltage" THEN 0
    ELSE IF f_type = "Grid Surge" THEN VDEN * SURGE_V
    ELSE v

\* mutants: the comparison turned round, and the comparison made inclusive
Expired_Inverted(current_time, f) == current_time < f.end_time
Expired_AtOrAfter(current_time, f) == current_time >= f.end_time

\* the expiry test of sim_step
Expired(current_time, f) == current_time > f.end_time

\* the value sim_step publishes
Published(v) == Round2(v, VDEN)

\* mutant: the homes are passed over, as in the superseded simulation_worker
Targets_GridOnly(grid_assets, hs) ==
    [j \in 1..Len(grid_assets) |->
        [db_id |-> grid_assets[j].id, rated_v |-> grid_assets[j].rated_voltage,
         asset_type |-> grid_assets[j].type, is_home |-> FALSE]]

\* the targets one tick walks over, grid assets first, then homes
Targets(grid_assets, hs) ==
    [j \in 1..Len(grid_assets) |->
        [db_id |-> grid_assets[j].id, rated_v |-> grid_assets[j].rated_voltage,
         asset_type |-> grid_assets[j].type, is_home |-> FALSE]]
    \o
    [j \in 1..Len(hs) |->
        [db_id |-> hs[j].id, rated_v |-> HOME_RATED_V,
         asset_type |-> "Smart Home", is_home |-> TRUE]]

cur == targets[i]
curKey == Key(cur.db_id, cur.is_home)

----------------------------------------------------------------------------
(* The simulation thread: simulation_worker_refactored and sim_step *)

\* lines 299-305: the registry is read and the tick time taken
LoopFetch ==
    /\ pc = "fetch"
    /\ t' = now
    /\ targets' = Targets(assets, homes)
    /\ i' = 1
    /\ tick_ok' = TRUE
    /\ tick_out' = << >>
    /\ pc' = IF targets' = << >> THEN "sleep" ELSE "lookup"
    /\ UNCHANGED << now, assets, homes, SENSOR_STATE, FAULT_STATE,
                    simulated_value, fault, outcome, httpVars, status >>

\* mutant: the exception is not caught and ends the thread
LoopFetchFails_Uncaught ==
    /\ pc = "fetch"
    /\ tick_ok' = FALSE
    /\ tick_out' = << >>
    /\ pc' = "crashed"
    /\ UNCHANGED << now, assets, homes, SENSOR_STATE, FAULT_STATE, t, targets,
                    i, simulated_value, fault, outcome, httpVars, status >>

\* lines 299-303 raise; line 315 catches, line 316 logs
LoopFetchFails ==
    /\ pc = "fetch"
    /\ tick_ok' = FALSE
    /\ tick_out' = << >>
    /\ pc' = "sleep"
    /\ UNCHANGED << now, assets, homes, SENSOR_STATE, FAULT_STATE, t, targets,
                    i, simulated_value, fault, outcome, httpVars, status >>

\* sim_step lines 245-260: value from noise and load, then the ledger lookup
SimLookup(wide) ==
    /\ pc = "lookup"
    /\ \E noise \in NoiseSamples(wide), load \in get_module_load(cur.asset_type, wide) :
          simulated_value' = Baseline(cur.rated_v, noise, load)
    /\ IF Has(FAULT_STATE, curKey)
         THEN /\ fault' = FAULT_STATE[curKey]
              /\ pc' = "fault"
         ELSE /\ fault' = None
              /\ pc' = "store"
    /\ outcome' = "none"
    /\ UNCHANGED << now, assets, homes, SENSOR_STATE, FAULT_STATE, t, targets,
                    i, tick_ok, tick_out, httpVars, status >>

\* sim_step lines 261-284: lazy expiry, or the override
SimFault ==
    /\ pc = "fault"
    /\ IF Expired(t, fault)
         THEN /\ Has(FAULT_STATE, curKey)
              /\ FAULT_STATE' = DictDel(FAULT_STATE, curKey)
              /\ outcome' = "expired"
              /\ UNCHANGED simulated_value
         ELSE /\ simulated_value' = ApplyFault(fault.type, simulated_value)
              /\ outcome' = "applied"
              /\ UNCHANGED FAULT_STATE
    /\ pc' = "store"
    /\ UNCHANGED << now, assets, homes, SENSOR_STATE, t, targets, i, fault,
                    tick_ok, tick_out, httpVars, status >>

\* sim_step line 291, and the for loops of lines 308-313
SimStore ==
    /\ pc = "store"
    /\ SENSOR_STATE' = DictSet(SENSOR_STATE, curKey, Published(simulated_value))
    /\ tick_out' = (curKey :> Published(simulated_value)) @@ tick_out
    /\ i' = IF i < Len(targets) THEN i + 1 ELSE 1
    /\ pc' = IF i < Len(targets) THEN "lookup" ELSE "sleep"
    \* sim_step returns: its locals are gone
    /\ simulated_value' = 0
    /\ fault' = None
    /\ outcome' = "none"
    /\ UNCHANGED << now, assets, homes, FAULT_STATE, t, targets, tick_ok,
                    httpVars, status >>

\* line 317: time.sleep(1); horizon bounds the clock of the model
LoopSleep(horizon) ==
    /\ pc = "sleep"
    /\ now + SLEEP_SECONDS <= horizon
    /\ now' = now + SLEEP_SECONDS
    /\ pc' = "fetch"
    /\ UNCHANGED << assets, homes, SENSOR_STATE, FAULT_STATE, t, targets, i,
                    simulated_value, fault, outcome, tick_ok, tick_out,
                    httpVars, status >>

SimThread(wide, horizon) ==
    \/ LoopFetch
    \/ LoopFetchFails
    \/ SimLookup(wide)
    \/ SimFault
    \/ SimStore
    \/ LoopSleep(horizon)

----------------------------------------------------------------------------
(* Environment: the clock, and rows inserted into the registry *)

ClockAdvance(horizon) ==
    /\ now < horizon
    /\ now' = now + 1
    /\ UNCHANGED << assets, homes, SENSOR_STATE, FAULT_STATE, simVars,
                    httpVars, status >>

RegistryAddHome ==
    /\ Len(homes) < MaxHomes
    /\ homes' = Append(homes, [id |-> Len(homes) + 1])
    /\ UNCHANGED << now, assets, SENSOR_STATE, FAULT_STATE, simVars,
                    httpVars, status >>

----------------------------------------------------------------------------
(* POST /api/trigger_fault *)

Duration(data) ==
    IF "duration" \in DOMAIN data THEN data.duration ELSE DEFAULT_DURATION

IsHome(data) ==
    IF "is_home" \in DOMAIN data THEN data.is_home ELSE FALSE

\* line 418
RequestKey(data) == Key(data.asset_id, IsHome(data))

\* lines 421-424: the entry the handler writes
NewEntry(data, time) ==
    [type |-> data.fault_type, end_time |-> time + Duration(data)]

\* mutant: an entry that has not expired is kept
Install_KeepUnexpired(ledger, data, time) ==
    IF Has(ledger, RequestKey(data)) /\ ledger[RequestKey(data)].end_time >= time
        THEN ledger
        ELSE DictSet(ledger, RequestKey(data), NewEntry(data, time))

\* lines 418-424: the ledger after the handler
Install(ledger, data, time) ==
    DictSet(ledger, RequestKey(data), NewEntry(data, time))

\* lines 403-404 answer 400 to an empty body; line 427 answers 200: the
\* handler checks neither fault_type nor duration
TriggerStatus(data) == IF DOMAIN data = {} THEN 400 ELSE 200

trigger_fault(data) ==
    /\ nreq < MaxRequests
    /\ nreq' = nreq + 1
    /\ request' = data
    /\ response' = TriggerStatus(data)
    /\ FAULT_STATE' = IF response' = 200 THEN Install(FAULT_STATE, data, now)
                      ELSE FAULT_STATE
    /\ UNCHANGED << now, assets, homes, SENSOR_STATE, simVars, status >>

----------------------------------------------------------------------------
(* The ledger under concurrency: requests against grid asset 1 and home 1  *)
(* while the loop ticks over the seeded registry.                          *)

\* the kind and duration of a request: each kind for one second, and a
\* voltage dip for every duration
Orders ==
    ({"Voltage Dip", "Grid Surge", "Bogus"} \X {1})
    \cup ({"Voltage Dip"} \X {-1, 0, 1, 2})

Requests ==
    {[asset_id |-> 1, fault_type |-> o[1], duration |-> o[2], is_home |-> h] :
        o \in Orders, h \in BOOLEAN}
    \cup {NoData}

Next ==
    \/ SimThread(FALSE, MaxTime)
    \/ ClockAdvance(MaxTime)
    \/ \E data \in Requests : trigger_fault(data)

Spec == Init /\ [][Next]_vars

\* the same requests with a recognized kind and a positive duration only
ValidRequests ==
    {data \in Requests \ {NoData} :
        /\ data.duration > 0
        /\ data.fault_type \in (IF data.is_home THEN HomeFaults ELSE GridFaults)}

NextValid ==
    \/ SimThread(FALSE, MaxTime)
    \/ ClockAdvance(MaxTime)
    \/ \E data \in ValidRequests : trigger_fault(data)

SpecValid == Init /\ [][NextValid]_vars

----------------------------------------------------------------------------
(* GET /api/status *)

\* mutant: the health of a grid asset is looked up in the ledger
GridRecord_ReadsLedger(asset, current_load) ==
    LET key == Key(asset.id, FALSE)
        rated_v == asset.rated_voltage
        real_v == IF Has(SENSOR_STATE, key) THEN SENSOR_STATE[key] ELSE rated_v
        expected_v == calculate_expected_voltage(rated_v, current_load, asset.impedance10)
        health == IF Has(FAULT_STATE, key) THEN "CRITICAL"
                  ELSE analyze_health(real_v, expected_v)
    IN  [id |-> key, type |-> asset.type, real_value |-> real_v,
         expected_value |-> Round2(expected_v, 1), health_status |-> health,
         load_amps |-> Round2(current_load, 1),
         recommendation |-> get_recommendation(real_v, expected_v, health)]

\* lines 337-359: the record of one grid asset, for one sampled load
GridRecord(asset, current_load) ==
    LET key == Key(asset.id, FALSE)
        rated_v == asset.rated_voltage
        real_v == IF Has(SENSOR_STATE, key) THEN SENSOR_STATE[key] ELSE rated_v
        expected_v == calculate_expected_voltage(rated_v, current_load, asset.impedance10)
        health == analyze_health(real_v, expected_v)
    IN  [id |-> key, type |-> asset.type, real_value |-> real_v,
         expected_value |-> Round2(expected_v, 1), health_status |-> health,
         load_amps |-> Round2(current_load, 1),
         recommendation |-> get_recommendation(real_v, expected_v, health)]

\* lines 372-376: the current of a home, given the sampled profile
HomeCurrent(key, profile) ==
    IF FaultGet(FAULT_STATE, key) # None /\ FaultGet(FAULT_STATE, key).type = "Home Wear"
        THEN HOME_WEAR_MA
        ELSE profile

\* mutant: a home without a reading is reported at 0 V
HomeRecord_DefaultZero(home, profile) ==
    LET key == Key(home.id, TRUE)
        real_v == IF Has(SENSOR_STATE, key) THEN SENSOR_STATE[key] ELSE 0
        current_load == HomeCurrent(key, profile)
        iot == analyze_home_iot(real_v, current_load)
        health_ui == IF iot[1] = "WARNING" THEN "WARNING"
                     ELSE IF iot[1] = "PROTECTION ACTIVE" THEN "CRITICAL"
                     ELSE "NORMAL"
    IN  [id |-> key, type |-> "Smart Home", real_value |-> real_v,
         expected_value |-> HOME_RATED_V, health_status |-> health_ui,
         load_amps |-> Round2(current_load, 1), recommendation |-> iot[2]]

\* lines 362-396: the record of one home, for one sampled load profile
HomeRecord(home, profile) ==
    LET key == Key(home.id, TRUE)
        real_v == IF Has(SENSOR_STATE, key) THEN SENSOR_STATE[key] ELSE HOME_RATED_V
        current_load == HomeCurrent(key, profile)
        iot == analyze_home_iot(real_v, current_load)
        health_ui == IF iot[1] = "WARNING" THEN "WARNING"
                     ELSE IF iot[1] = "PROTECTION ACTIVE" THEN "CRITICAL"
                     ELSE "NORMAL"
    IN  [id |-> key, type |-> "Smart Home", real_value |-> real_v,
         expected_value |-> HOME_RATED_V, health_status |-> health_ui,
         load_amps |-> Round2(current_load, 1), recommendation |-> iot[2]]

AllLoads(wide) ==
    GenerationModule(wide) \cup TransmissionModule(wide)
    \cup DistributionModule(wide) \cup {DEFAULT_LOAD_MA}

\* the ledger without the entries that have expired
Unexpired(ledger, time) ==
    [k \in {x \in DOMAIN ledger : ledger[x].end_time >= time} |-> ledger[k]]

\* mutant: the read prunes the expired entries of the ledger
get_status_Prunes(wide) ==
    /\ \E gl \in [1..Len(assets) -> AllLoads(wide)],
          hl \in [1..Len(homes) -> SmartHomeModule(wide)] :
          /\ \A j \in 1..Len(assets) : gl[j] \in get_module_load(assets[j].type, wide)
          /\ status' = [j \in 1..Len(assets) |-> GridRecord(assets[j], gl[j])]
                       \o [j \in 1..Len(homes) |-> HomeRecord(homes[j], hl[j])]
    /\ FAULT_STATE' = Unexpired(FAULT_STATE, now)
    /\ UNCHANGED << now, assets, homes, SENSOR_STATE, simVars, httpVars >>

get_status(wide) ==
    /\ \E gl \in [1..Len(assets) -> AllLoads(wide)],
          hl \in [1..Len(homes) -> SmartHomeModule(wide)] :
          /\ \A j \in 1..Len(assets) : gl[j] \in get_module_load(assets[j].type, wide)
          /\ status' = [j \in 1..Len(assets) |-> GridRecord(assets[j], gl[j])]
                       \o [j \in 1..Len(homes) |-> HomeRecord(homes[j], hl[j])]
    /\ UNCHANGED << now, assets, homes, SENSOR_STATE, FAULT_STATE, simVars,
                    httpVars >>

----------------------------------------------------------------------------
(* End to end: a registry that holds the Distribution feeder alone, Zero   *)
(* Voltage requests of 10 s, the loop at one tick per second, status reads.*)

InitE2E == InitWith(<< seed_data[3] >>, << >>)

RequestsE2E ==
    { [asset_id |-> 3, fault_type |-> "Zero Voltage", duration |-> 10, is_home |-> FALSE],
      [asset_id |-> 3, fault_type |-> "Zero Voltage"] }

NextE2E ==
    \/ SimThread(TRUE, MaxTimeE2E)
    \/ \E data \in RequestsE2E : trigger_fault(data)
    \/ get_status(TRUE)

SpecE2E == InitE2E /\ [][NextE2E]_vars

----------------------------------------------------------------------------
(* The registry grows: a second home is inserted, and faulted, while the   *)
(* loop runs.  SpecLive adds the scheduling of the simulation thread.      *)

RequestsRegistry ==
    [asset_id : {2}, fault_type : {"Grid Surge"}, duration : {1}, is_home : {TRUE}]

NextRegistry ==
    \/ SimThread(FALSE, MaxTime)
    \/ ClockAdvance(MaxTime)
    \/ RegistryAddHome
    \/ \E data \in RequestsRegistry : trigger_fault(data)

SpecRegistry == Init /\ [][NextRegistry]_vars

SpecLive == SpecRegistry /\ WF_vars(SimThread(FALSE, MaxTime))

----------------------------------------------------------------------------
(* The read path beside the loop: a registry that holds the Generation     *)
(* asset and the seeded home, requests against them of the kinds sim_step  *)
(* and get_status know, and status reads.                                  *)

InitStatus == InitWith(<< seed_data[1] >>, seed_homes)

RequestsStatus ==
    { [asset_id |-> 1, fault_type |-> "Home Wear", duration |-> 1, is_home |-> TRUE],
      [asset_id |-> 1, fault_type |-> "Grid Surge", duration |-> 1, is_home |-> TRUE],
      [asset_id |-> 1, fault_type |-> "Voltage Dip", duration |-> 1, is_home |-> FALSE],
      [asset_id |-> 1, fault_type |-> "Voltage Spike", duration |-> 1, is_home |-> FALSE] }

NextStatus ==
    \/ SimThread(FALSE, MaxTime)
    \/ ClockAdvance(MaxTime)
    \/ \E data \in RequestsStatus : trigger_fault(data)
    \/ get_status(FALSE)

SpecStatus == InitStatus /\ [][NextStatus]_vars

----------------------------------------------------------------------------
(* The analyzer on its own: a registry of one grid asset of no known       *)
(* category and no impedance, so that expected_v is its rated voltage; the *)
(* rated voltage (in mV, on and beside the steps of 0.01 V) and the        *)
(* published reading (in steps of 0.01 V) are drawn from ranges around     *)
(* zero, and status reads apply the analyzer to them.                      *)

BenchRow(rated_v) ==
    [id |-> 1, type |-> "Bench", rated_voltage |-> rated_v, impedance10 |-> 0]

InitAnalyzer ==
    \E e \in -MaxVolt..MaxVolt, d \in {-4, 0, 4}, r \in -2 * MaxVolt..2 * MaxVolt :
        /\ now = 0
        /\ assets = << BenchRow(10 * e + d) >>
        /\ homes = << >>
        /\ SENSOR_STATE = (Key(1, FALSE) :> 10 * r)
        /\ FAULT_STATE = << >>
        /\ pc = "sleep"
        /\ t = 0
        /\ targets = << >>
        /\ i = 1
        /\ simulated_value = 0
        /\ fault = None
        /\ outcome = "none"
        /\ tick_ok = TRUE
        /\ tick_out = << >>
        /\ nreq = 0
        /\ request = NoData
        /\ response = 0
        /\ status = << >>

NextAnalyzer == get_status(FALSE)

SpecAnalyzer == InitAnalyzer /\ [][NextAnalyzer]_vars

----------------------------------------------------------------------------
(* Status reads while the registry grows: homes are inserted, and home 2   *)
(* faulted, between the ticks of the loop, and read before a tick has      *)
(* reached them.                                                           *)

NextRegistryRead ==
    \/ SimThread(FALSE, MaxTime)
    \/ RegistryAddHome
    \/ \E data \in RequestsRegistry : trigger_fault(data)
    \/ get_status(FALSE)

SpecRegistryRead == Init /\ [][NextRegistryRead]_vars

----------------------------------------------------------------------------
(* The loop ticking without a failing registry read, once per second, over *)
(* the Generation asset and the seeded home; Grid Surge requests of one    *)
(* second for home 1 and for home 2, which the registry does not hold.     *)

\* line 317: time.sleep(1), the loop going on for ever: once the clock of
\* the model has reached horizon it stands still there
LoopSleepOn(horizon) ==
    /\ pc = "sleep"
    /\ now' = IF now + SLEEP_SECONDS <= horizon THEN now + SLEEP_SECONDS ELSE now
    /\ pc' = "fetch"
    /\ UNCHANGED << assets, homes, SENSOR_STATE, FAULT_STATE, t, targets, i,
                    simulated_value, fault, outcome, tick_ok, tick_out,
                    httpVars, status >>

Ticking(horizon) ==
    \/ LoopFetch
    \/ SimLookup(FALSE)
    \/ SimFault
    \/ SimStore
    \/ LoopSleepOn(horizon)

RequestsTicking ==
    [asset_id : {1, 2}, fault_type : {"Grid Surge"}, duration : {1}, is_home : {TRUE}]

NextTicking ==
    \/ Ticking(MaxTime)
    \/ \E data \in RequestsTicking : trigger_fault(data)

SpecTicking == InitStatus /\ [][NextTicking]_vars /\ WF_vars(Ticking(MaxTime))

----------------------------------------------------------------------------
(* No request at all: a registry that holds one of the seeded grid assets  *)
(* beside the seeded home, the loop drawing its noise and loads from the   *)
(* ends of their ranges, and status reads drawing their loads likewise.    *)
(* With an empty ledger sim_step never reaches its expiry test.            *)

InitSeeded == \E j \in 1..Len(seed_data) : InitWith(<< seed_data[j] >>, seed_homes)

NextSeeded ==
    \/ LoopFetch
    \/ LoopFetchFails
    \/ SimLookup(TRUE)
    \/ SimStore
    \/ LoopSleep(MaxTime)
    \/ get_status(TRUE)

SpecSeeded == InitSeeded /\ [][NextSeeded]_vars

----------------------------------------------------------------------------
(* Vocabulary of the properties *)

\* a step that serves a request with a body
TriggerStep == nreq' = nreq + 1 /\ request' # NoData

LookupStep == pc = "lookup" /\ pc' # "lookup"
FaultStep == pc = "fault" /\ pc' = "store"
StoreStep == pc = "store" /\ pc' # "store"
SimStep == pc \in {"lookup", "fault", "store"} /\ pc' # pc

\* section 4.3 step 3 of the specification: v2 is v1 under the override of kind
Overridden(kind, v1, v2) ==
    IF kind = "Voltage Dip" THEN v1 % 20 = 0 /\ v2 % 13 = 0 /\ v2 \div 13 = v1 \div 20
    ELSE IF kind = "Voltage Spike" THEN v1 % 20 = 0 /\ v2 % 28 = 0 /\ v2 \div 28 = v1 \div 20
    ELSE IF kind = "Zero Voltage" THEN v2 = 0
    ELSE IF kind = "Grid Surge" THEN v2 = 20 * 265000
    ELSE v2 = v1

\* the kinds the specification recognizes for the category of the target
RecognizedKind(data) ==
    IF IsHome(data) THEN data.fault_type \in HomeFaults
    ELSE data.fault_type \in GridFaults

Identities ==
    {<< assets[j].id, FALSE >> : j \in 1..Len(assets)}
    \cup {<< homes[j].id, TRUE >> : j \in 1..Len(homes)}

EntryOf(A) == FaultGet(FAULT_STATE, Key(A[1], A[2]))
ReadingOf(A) ==
    IF Has(SENSOR_STATE, Key(A[1], A[2])) THEN SENSOR_STATE[Key(A[1], A[2])] ELSE -1

----------------------------------------------------------------------------
(* C1: a fault installed at t0 with duration d > 0 has expiry t0 + d; a    *)
(* tick before the expiry (at t0 + d - 1) applies the kind to the reading  *)
(* and keeps the entry; a tick after the expiry (at t0 + d + 1) applies    *)
(* nothing and removes the entry; the entry then stays absent until a new  *)
(* install, so later ticks find none and publish the unfaulted value.      *)
C1_FaultWindow ==
    [][ /\ (TriggerStep /\ request'.duration > 0)
           => /\ Has(FAULT_STATE', RequestKey(request'))
              /\ FAULT_STATE'[RequestKey(request')].end_time = now + request'.duration
        /\ (FaultStep /\ t < fault.end_time)
              => /\ outcome' = "applied"
                 /\ Overridden(fault.type, simulated_value, simulated_value')
                 /\ FAULT_STATE' = FAULT_STATE
        /\ (FaultStep /\ t > fault.end_time)
              => /\ outcome' = "expired"
                 /\ simulated_value' = simulated_value
                 /\ ~Has(FAULT_STATE', curKey)
        /\ \A k \in DOMAIN FAULT_STATE' \ DOMAIN FAULT_STATE : nreq' = nreq + 1
        /\ (LookupStep /\ ~Has(FAULT_STATE, curKey))
              => pc' = "store" /\ fault' = None /\ outcome' = "none"
        /\ StoreStep
              => /\ Has(SENSOR_STATE', curKey)
                 /\ SENSOR_STATE'[curKey] = Round2(simulated_value, 20)
      ]_vars

\* a tick one second past the expiry has just removed the entry
C1_Witness ==
    /\ pc = "store"
    /\ outcome = "expired"
    /\ fault.type = "Voltage Dip"
    /\ t = fault.end_time + 1
    /\ ~Has(FAULT_STATE, curKey)

----------------------------------------------------------------------------
(* C2 as amended: a tick that processes a target whose entry has expiry    *)
(* strictly before the tick time deletes the entry and leaves the value    *)
(* without override; an entry whose expiry equals the tick time is still   *)
(* applied and kept.                                                       *)
C2_StrictExpiry ==
    [][ FaultStep
        => IF fault.end_time < t
             THEN /\ ~Has(FAULT_STATE', curKey)
                  /\ outcome' = "expired"
                  /\ simulated_value' = simulated_value
             ELSE /\ FAULT_STATE' = FAULT_STATE
                  /\ outcome' = "applied"
                  /\ Overridden(fault.type, simulated_value, simulated_value')
      ]_vars

\* the tick time equals the expiry, and the fault was applied
C2_Witness ==
    /\ pc = "store"
    /\ outcome = "applied"
    /\ fault.type = "Voltage Dip"
    /\ t = fault.end_time
    /\ Has(FAULT_STATE, curKey)

(* C2 as stated: expiry <= tick time, equality included, means deletion    *)
(* and no override.                                                        *)
C2_Original ==
    [][ (FaultStep /\ fault.end_time <= t)
        => /\ ~Has(FAULT_STATE', curKey)
           /\ outcome' = "expired"
           /\ simulated_value' = simulated_value
      ]_vars

----------------------------------------------------------------------------
(* C3: a request whose fault_type is not a recognized kind for the         *)
(* category of its target is answered 400 and leaves the ledger as it was. *)
C3_RejectsUnknownKind ==
    [][ (TriggerStep /\ ~RecognizedKind(request'))
        => response' = 400 /\ FAULT_STATE' = FAULT_STATE
      ]_vars

----------------------------------------------------------------------------
(* C4: a request whose duration is zero or negative is answered 400 and    *)
(* leaves the ledger as it was; no entry is ever created with an expiry    *)
(* at or before its install time.                                          *)
C4_RejectsNonPositiveDuration ==
    [][ /\ (TriggerStep /\ request'.duration <= 0)
           => response' = 400 /\ FAULT_STATE' = FAULT_STATE
        /\ \A k \in DOMAIN FAULT_STATE' :
              (~Has(FAULT_STATE, k) \/ FAULT_STATE[k] # FAULT_STATE'[k])
              => FAULT_STATE'[k].end_time > now
      ]_vars

----------------------------------------------------------------------------
(* C5: an entry leaves the ledger only in a tick whose time exceeds that   *)
(* same entry's own expiry, whatever the interleaving of tick and requests.*)
C5_RemovedOnlyWhenOwnExpiryPassed ==
    [][ \A k \in DOMAIN FAULT_STATE :
          ~Has(FAULT_STATE', k) => t > FAULT_STATE[k].end_time
      ]_vars

----------------------------------------------------------------------------
(* C6: one entry per identity, last write wins: a served request leaves    *)
(* under its key exactly its own kind and expiry, whatever was there, and  *)
(* touches no other key; a tick that looks the key up reads that entry and *)
(* applies its kind.                                                       *)
C6_LastWriteWins ==
    [][ /\ TriggerStep
           => /\ DOMAIN FAULT_STATE' = DOMAIN FAULT_STATE \cup {RequestKey(request')}
              /\ FAULT_STATE'[RequestKey(request')] =
                    [type |-> request'.fault_type, end_time |-> now + request'.duration]
              /\ \A k \in DOMAIN FAULT_STATE \ {RequestKey(request')} :
                    FAULT_STATE'[k] = FAULT_STATE[k]
        /\ (LookupStep /\ Has(FAULT_STATE, curKey))
              => pc' = "fault" /\ fault' = FAULT_STATE[curKey]
        /\ (FaultStep /\ outcome' = "applied")
              => Overridden(fault.type, simulated_value, simulated_value')
      ]_vars

\* two requests were served before the loop processed anything, and the
\* ledger holds the one entry of the second
C6_Witness ==
    /\ nreq = 2
    /\ response = 200
    /\ request = [asset_id |-> 1, fault_type |-> "Voltage Dip", duration |-> 2,
                  is_home |-> FALSE]
    /\ pc = "fetch"
    /\ SENSOR_STATE = << >>
    /\ DOMAIN FAULT_STATE = {Key(1, FALSE)}
    /\ FAULT_STATE[Key(1, FALSE)] = [type |-> "Voltage Dip", end_time |-> now + 2]

----------------------------------------------------------------------------
(* C7: for distinct identities A and B (grid 1 and home 1 included), a     *)
(* request for B, and a loop step that processes B, leave A's entry and    *)
(* A's reading as they were; the entry a tick reads for A is A's own.      *)
C7_NoInterference ==
    [][ /\ TriggerStep
           => \A A \in Identities \ {<< request'.asset_id, request'.is_home >>} :
                 EntryOf(A)' = EntryOf(A) /\ ReadingOf(A)' = ReadingOf(A)
        /\ SimStep
           => \A A \in Identities \ {<< cur.db_id, cur.is_home >>} :
                 EntryOf(A)' = EntryOf(A) /\ ReadingOf(A)' = ReadingOf(A)
        /\ LookupStep
           => fault' = EntryOf(<< cur.db_id, cur.is_home >>)
      ]_vars

\* grid asset 1 and home 1 hold different entries at the same time, and the
\* loop has published a reading for each
C7_Witness ==
    /\ Has(FAULT_STATE, << "grid", 1 >>)
    /\ Has(FAULT_STATE, << "home", 1 >>)
    /\ FAULT_STATE[<< "grid", 1 >>].type = "Voltage Dip"
    /\ FAULT_STATE[<< "home", 1 >>].type = "Grid Surge"
    /\ Has(SENSOR_STATE, << "grid", 1 >>)
    /\ Has(SENSOR_STATE, << "home", 1 >>)
    /\ SENSOR_STATE[<< "home", 1 >>] = 265000

----------------------------------------------------------------------------
(* C8: Distribution feeder, rated 400 V, impedance 1.1.  Once a tick that  *)
(* began after a 10 s Zero Voltage install, and within its 10 s, has       *)
(* published, every status read reports real_value 0.0 and CRITICAL; a     *)
(* tick more than 10 s after the install removes the entry and publishes   *)
(* rated + noise - 0.05 * load, rounded, with no override.                 *)
Feeder == << "grid", 3 >>

\* round(400 + noise - 0.05 * load, 2) in mV for a noise within 1 % of 400 V
\* and a load of 30 +- 2 A lies between 400 - 4 - 1.6 and 400 + 4 - 1.4 V
UnfaultedFeeder(v) == 394400 <= v /\ v <= 402600 /\ v % 10 = 0

C8_ZeroVoltageEndToEnd ==
    /\ ( /\ pc \in {"sleep", "fetch"}
         /\ tick_ok
         /\ Has(FAULT_STATE, Feeder)
         /\ FAULT_STATE[Feeder].type = "Zero Voltage"
         /\ t > FAULT_STATE[Feeder].end_time - 10
         /\ t <= FAULT_STATE[Feeder].end_time )
       => /\ Has(SENSOR_STATE, Feeder)
          /\ SENSOR_STATE[Feeder] = 0
          /\ \A load \in {28000, 30000, 32000} :
                /\ GridRecord(seed_data[3], load).real_value = 0
                /\ GridRecord(seed_data[3], load).health_status = "CRITICAL"
    /\ (pc = "store" /\ fault # None /\ t > fault.end_time)
       => /\ outcome = "expired"
          /\ UnfaultedFeeder(Round2(simulated_value, 20))
    /\ (status # << >> /\ status[1].real_value = 0)
       => status[1].health_status = "CRITICAL"

\* a status read taken while the entry is live reports 0.0 and CRITICAL
C8_Witness ==
    /\ status # << >>
    /\ status[1].id = Feeder
    /\ status[1].real_value = 0
    /\ status[1].health_status = "CRITICAL"
    /\ Has(FAULT_STATE, Feeder)
    /\ pc = "sleep"
    /\ t = FAULT_STATE[Feeder].end_time - 9

----------------------------------------------------------------------------
(* C9: a tick whose registry read fails leaves the loop alive, at its      *)
(* sleep, with SENSOR_STATE and FAULT_STATE as they were; from that sleep  *)
(* the loop comes back to the top of its body for another tick (unless the *)
(* clock of the model has reached its horizon).                            *)
C9_FailingTickRecovers ==
    /\ [][ (pc = "fetch" /\ pc' # "fetch" /\ ~tick_ok')
           => /\ pc' = "sleep"
              /\ SENSOR_STATE' = SENSOR_STATE
              /\ FAULT_STATE' = FAULT_STATE
         ]_vars
    /\ ((pc = "sleep" /\ ~tick_ok) ~> (pc = "fetch" \/ now = MaxTime))

\* the loop is back at the top of its body after a failed tick and its sleep
C9_Witness ==
    /\ pc = "fetch"
    /\ ~tick_ok
    /\ now > 0

----------------------------------------------------------------------------
(* C10 as amended: a tick whose registry read succeeds reads every target  *)
(* registered at that moment, and when it ends SENSOR_STATE holds, for     *)
(* each of them, the value that tick computed; so a target added to the    *)
(* registry has a reading once the next successful tick has run.           *)
RegisteredKeys ==
    {<< "grid", assets[j].id >> : j \in 1..Len(assets)}
    \cup {<< "home", homes[j].id >> : j \in 1..Len(homes)}

TickKeys(ts) == {Key(ts[j].db_id, ts[j].is_home) : j \in 1..Len(ts)}

TickEnds == pc # "sleep" /\ pc' = "sleep"

----------------------------------------------------------------------------
(* C11: a status read reports the forced 18.5 A for a home exactly while a *)
(* Home Wear entry is active for it (an entry exists and now <= expiry);   *)
(* once the expiry has passed the current is the load profile's, whether   *)
(* or not a tick has pruned the entry.                                     *)
ReadStep == status' # status

HomeRow(body, j) == body[Len(assets) + j]

WearActive(key) ==
    /\ Has(FAULT_STATE, key)
    /\ FAULT_STATE[key].type = "Home Wear"
    /\ now <= FAULT_STATE[key].end_time

C11_WearCurrentOnlyWhileActive ==
    [][ ReadStep
        => \A j \in 1..Len(homes) :
              IF WearActive(Key(homes[j].id, TRUE))
                THEN HomeRow(status', j).load_amps = 18500
                ELSE HomeRow(status', j).load_amps \in 7000..11000
      ]_vars

----------------------------------------------------------------------------
(* C12 as amended: between two states whose ledgers differ and that show a *)
(* target the same sensor reading, a status read with the same sampled     *)
(* load reports the same health_status, for every grid asset, and for      *)
(* every home unless the two ledgers differ in whether they hold a Home    *)
(* Wear entry for that home.                                               *)
LoadSamples(asset_type) ==
    get_module_load(asset_type, TRUE) \cup get_module_load(asset_type, FALSE)

WearEntry(key) == Has(FAULT_STATE, key) /\ FAULT_STATE[key].type = "Home Wear"

SameReading(key) ==
    /\ Has(SENSOR_STATE', key) = Has(SENSOR_STATE, key)
    /\ Has(SENSOR_STATE, key) => SENSOR_STATE'[key] = SENSOR_STATE[key]

GridHealthKept(j) ==
    \A load \in LoadSamples(assets[j].type) :
        GridRecord(assets[j], load).health_status' =
            GridRecord(assets[j], load).health_status

HomeHealthKept(j) ==
    \A profile \in LoadSamples("Smart Home") :
        HomeRecord(homes[j], profile).health_status' =
            HomeRecord(homes[j], profile).health_status

C12_HealthIgnoresLedger ==
    [][ (FAULT_STATE' # FAULT_STATE)
        => /\ \A j \in 1..Len(assets) :
                 SameReading(Key(assets[j].id, FALSE)) => GridHealthKept(j)
           /\ \A j \in 1..Len(homes) :
                 ( /\ SameReading(Key(homes[j].id, TRUE))
                   /\ WearEntry(Key(homes[j].id, TRUE))' = WearEntry(Key(homes[j].id, TRUE)) )
                 => HomeHealthKept(j)
      ]_vars

\* a read has reported the health of grid asset 1 from its published
\* reading, as a read now would, while the ledger holds an entry for it
C12_Witness ==
    /\ status # << >>
    /\ Has(SENSOR_STATE, << "grid", 1 >>)
    /\ Has(FAULT_STATE, << "grid", 1 >>)
    /\ status[1] = GridRecord(assets[1], 50000)
    /\ status[1].real_value = SENSOR_STATE[<< "grid", 1 >>]

(* C12 as stated: the same for every home, whatever the two ledgers hold.  *)
C12_Original ==
    [][ (FAULT_STATE' # FAULT_STATE)
        => /\ \A j \in 1..Len(assets) :
                 SameReading(Key(assets[j].id, FALSE)) => GridHealthKept(j)
           /\ \A j \in 1..Len(homes) :
                 SameReading(Key(homes[j].id, TRUE)) => HomeHealthKept(j)
      ]_vars

----------------------------------------------------------------------------
(* C13 as amended: for every real and every expected # 0, of either sign,  *)
(* analyze_health is the classifier of                                     *)
(* deviation_pct = |real - expected| / |expected| * 100: CRITICAL above    *)
(* 10, WARNING above 5 and up to 10, NORMAL otherwise; exactly 5 % is      *)
(* NORMAL and exactly 10 % is WARNING.                                     *)

\* whether num / den * 100 > pct, for den # 0
PctAbove(num, den, pct) ==
    IF den > 0 THEN num * 100 > pct * den ELSE num * 100 < pct * den

\* the classifier of deviation_pct = dev / den * 100
Classifier(dev, den) ==
    IF PctAbove(dev, den, 10) THEN "CRITICAL"
    ELSE IF PctAbove(dev, den, 5) THEN "WARNING"
    ELSE "NORMAL"

\* the grid record of the last status read, with the values it was built from
Read == status[1]
ReadReal == SENSOR_STATE[Key(1, FALSE)]
ReadExpected == assets[1].rated_voltage

C13_HealthIsDeviationClass ==
    (status # << >> /\ ReadExpected # 0)
    => /\ Read.real_value = ReadReal
       /\ Read.expected_value = Round2(ReadExpected, 1)
       /\ Read.health_status =
             Classifier(Abs(ReadReal - ReadExpected), Abs(ReadExpected))
       /\ (Abs(ReadReal - ReadExpected) * 20 = Abs(ReadExpected))
             => Read.health_status = "NORMAL"
       /\ (Abs(ReadReal - ReadExpected) * 10 = Abs(ReadExpected))
             => Read.health_status = "WARNING"

\* a read classified a reading 10 % below a negative expected value
C13_Witness ==
    /\ status # << >>
    /\ ReadExpected = -200
    /\ ReadReal = -220
    /\ Read.health_status = "WARNING"

(* C13 as stated: the classifier of                                        *)
(* deviation_pct = |real - expected| / expected * 100, the divisor signed. *)
C13_Original ==
    (status # << >> /\ ReadExpected # 0)
    => Read.health_status = Classifier(Abs(ReadReal - ReadExpected), ReadExpected)

----------------------------------------------------------------------------
(* C14: analyze_health is CRITICAL for every real value when expected is   *)
(* 0, and NORMAL whenever real equals an expected value above 0.           *)
C14_ZeroExpectedAndExactMatch ==
    status # << >>
    => /\ (ReadExpected = 0) => Read.health_status = "CRITICAL"
       /\ (ReadExpected > 0 /\ ReadReal = ReadExpected)
             => Read.health_status = "NORMAL"

\* a read classified a reading of 0 against an expected value of 0
C14_Witness ==
    /\ status # << >>
    /\ ReadExpected = 0
    /\ ReadReal = 0
    /\ Read.real_value = 0
    /\ Read.health_status = "CRITICAL"

----------------------------------------------------------------------------
(* C18: in a grid status record the recommendation is the generic anomaly  *)
(* advisory only when real and expected are both 0; when the health is not *)
(* NORMAL and expected is not 0 it is the overload advisory for real below *)
(* expected and the load-rejection advisory for real above expected; when  *)
(* the health is NORMAL it is the no-action message.                       *)
\* the advisory of a record whose health is not NORMAL, for real against e
SagOrSwell(e) ==
    /\ (Read.real_value < e)
          => Read.recommendation = "Possible Overload. Inspect Transformer Tap Changer."
    /\ (Read.real_value > e)
          => Read.recommendation = "Load Rejection. Check for Capacitor Bank malfunction."

\* expected is taken both as the record shows it (rounded to 0.01 V) and as
\* the analyzer received it
C18_Recommendation ==
    status # << >>
    => /\ (Read.recommendation = "Anomaly Detected. Manual Inspection Required.")
             => (Read.real_value = 0 /\ Read.expected_value = 0 /\ ReadExpected = 0)
       /\ (Read.health_status # "NORMAL" /\ Read.expected_value # 0)
             => SagOrSwell(Read.expected_value)
       /\ (Read.health_status # "NORMAL" /\ ReadExpected # 0)
             => SagOrSwell(ReadExpected)
       /\ (Read.health_status = "NORMAL")
             => Read.recommendation = "System Optimal. No Action Required."

\* a read gave the generic advisory for a reading of 0 against expected 0
C18_Witness ==
    /\ status # << >>
    /\ Read.real_value = 0
    /\ Read.expected_value = 0
    /\ Read.health_status = "CRITICAL"
    /\ Read.recommendation = "Anomaly Detected. Manual Inspection Required."

----------------------------------------------------------------------------
(* C15: analyze_home_iot is PROTECTION ACTIVE for a voltage above 255.0    *)
(* whatever the current, otherwise WARNING for a current above 15.0,       *)
(* otherwise NORMAL; the status read maps these to CRITICAL, WARNING and   *)
(* NORMAL; so once a tick has applied an active Grid Surge to a home,      *)
(* every read reports the home CRITICAL.                                   *)
HomeStatus(voltage, current) ==
    IF voltage > 255000 THEN "PROTECTION ACTIVE"
    ELSE IF current > 15000 THEN "WARNING"
    ELSE "NORMAL"

HomeSeverity(st) ==
    IF st = "PROTECTION ACTIVE" THEN "CRITICAL"
    ELSE IF st = "WARNING" THEN "WARNING"
    ELSE "NORMAL"

HomeAdvisory(st) ==
    IF st = "PROTECTION ACTIVE" THEN "Surge Detected. Power Cut to Save Appliances."
    ELSE IF st = "WARNING" THEN "High Current. Check AC Compressor Health."
    ELSE "Home System Nominal."

\* voltages and currents on, beside and away from the two thresholds
HomeVolts == {0, 230000, 254990, 255000, 255010, 265000}
HomeAmps == {0, 8000, 14990, 15000, 15010, 16000, 18500}

C15_HomeAnalysis ==
    [][ /\ ReadStep
           => /\ \A v \in HomeVolts, c \in HomeAmps :
                    analyze_home_iot(v, c) =
                       << HomeStatus(v, c), HomeAdvisory(HomeStatus(v, c)) >>
              /\ \A j \in 1..Len(homes) :
                    LET r == HomeRow(status', j)
                        st == HomeStatus(r.real_value, r.load_amps)
                    IN  /\ r.health_status = HomeSeverity(st)
                        /\ r.recommendation = HomeAdvisory(st)
        /\ (FaultStep /\ cur.is_home /\ fault.type = "Grid Surge" /\ t <= fault.end_time)
           => outcome' = "applied" /\ Published(simulated_value') = 265000
        /\ (StoreStep /\ cur.is_home /\ fault.type = "Grid Surge" /\ outcome = "applied")
           => \A j \in 1..Len(homes), profile \in LoadSamples("Smart Home") :
                 (homes[j].id = cur.db_id)
                 => /\ HomeRecord(homes[j], profile)'.real_value = 265000
                    /\ HomeRecord(homes[j], profile)'.health_status = "CRITICAL"
      ]_vars

\* a tick applied a Grid Surge to home 1, a Home Wear request then replaced
\* the entry, and a read reports 265.0 V at 18.5 A as CRITICAL
C15_Witness ==
    /\ status # << >>
    /\ HomeRow(status, 1).real_value = 265000
    /\ HomeRow(status, 1).load_amps = 18500
    /\ HomeRow(status, 1).health_status = "CRITICAL"
    /\ HomeRow(status, 1).recommendation = "Surge Detected. Power Cut to Save Appliances."

----------------------------------------------------------------------------
(* C16: a fault kind changes the value a tick publishes only when the kind *)
(* matches the category of the target: Voltage Dip, Voltage Spike and Zero *)
(* Voltage never alter a home's reading, Grid Surge never alters a grid    *)
(* asset's, whatever requests and ticks occur.                             *)
KindMatches(kind, is_home) ==
    IF is_home THEN kind \in HomeFaults ELSE kind \in GridFaults

C16_KindAltersOwnCategoryOnly ==
    [][ (FaultStep /\ ~KindMatches(fault.type, cur.is_home))
        => simulated_value' = simulated_value
      ]_vars

----------------------------------------------------------------------------
(* C17: a status read changes neither SENSOR_STATE nor FAULT_STATE (no     *)
(* default is inserted, no expired entry pruned); trigger_fault never      *)
(* changes SENSOR_STATE; the simulation loop changes FAULT_STATE only by   *)
(* deleting entries, and it alone writes SENSOR_STATE.                     *)

\* a step of the status read: not of the loop, of a request or of the clock
StatusStep == pc' = pc /\ nreq' = nreq /\ now' = now

\* a step of the simulation thread
LoopStep == pc' # pc

C17_Frames ==
    [][ /\ StatusStep
           => SENSOR_STATE' = SENSOR_STATE /\ FAULT_STATE' = FAULT_STATE
        /\ (nreq' = nreq + 1)
           => SENSOR_STATE' = SENSOR_STATE
        /\ LoopStep
           => /\ DOMAIN FAULT_STATE' \subseteq DOMAIN FAULT_STATE
              /\ \A k \in DOMAIN FAULT_STATE' : FAULT_STATE'[k] = FAULT_STATE[k]
        /\ (SENSOR_STATE' # SENSOR_STATE) => StoreStep
      ]_vars

\* a read has reported home 1 under an expired Home Wear entry and before
\* any tick: the entry is still there and SENSOR_STATE still empty
C17_Witness ==
    /\ status # << >>
    /\ SENSOR_STATE = << >>
    /\ Has(FAULT_STATE, << "home", 1 >>)
    /\ FAULT_STATE[<< "home", 1 >>].type = "Home Wear"
    /\ FAULT_STATE[<< "home", 1 >>].end_time < now
    /\ HomeRow(status, 1).load_amps = 18500
    /\ status[1].real_value = assets[1].rated_voltage

----------------------------------------------------------------------------
(* C19: a status read for a target that has no SENSOR_STATE entry yet      *)
(* (before the first tick, or added since the last tick) reports as        *)
(* real_value the rated voltage of a grid asset, and 230.0 for a home.     *)

\* what a read taken in the present state reports, and what a read that
\* has just been served reported
C19_DefaultReading ==
    /\ [](\A j \in 1..Len(assets) :
             ~Has(SENSOR_STATE, Key(assets[j].id, FALSE))
             => \A load \in LoadSamples(assets[j].type) :
                   GridRecord(assets[j], load).real_value = assets[j].rated_voltage)
    /\ [](\A j \in 1..Len(homes) :
             ~Has(SENSOR_STATE, Key(homes[j].id, TRUE))
             => \A profile \in LoadSamples("Smart Home") :
                   HomeRecord(homes[j], profile).real_value = 230000)
    /\ [][ ReadStep
           => /\ Len(status') = Len(assets) + Len(homes)
              /\ \A j \in 1..Len(assets) :
                    ~Has(SENSOR_STATE, Key(assets[j].id, FALSE))
                    => status'[j].real_value = assets[j].rated_voltage
              /\ \A j \in 1..Len(homes) :
                    ~Has(SENSOR_STATE, Key(homes[j].id, TRUE))
                    => HomeRow(status', j).real_value = 230000
         ]_vars

\* home 2 was inserted after the last tick began, and a read has reported
\* it at 230.0 V beside home 1 at its published reading
C19_Witness ==
    /\ Len(homes) = 2
    /\ ~Has(SENSOR_STATE, << "home", 2 >>)
    /\ Has(SENSOR_STATE, << "home", 1 >>)
    /\ Len(status) = Len(assets) + 2
    /\ HomeRow(status, 2).id = << "home", 2 >>
    /\ HomeRow(status, 2).real_value = 230000
    /\ HomeRow(status, 1).real_value = SENSOR_STATE[<< "home", 1 >>]

----------------------------------------------------------------------------
(* C20: while the loop keeps ticking successfully, every entry installed   *)
(* in the ledger is removed in the end, once its expiry has passed, also   *)
(* when its identity is not in the registry.  Stated for the entries whose *)
(* expiry lies before the horizon of the clock, which the ticks at the     *)
(* horizon find expired.                                                   *)
LedgerKeys == {<< "home", 1 >>, << "home", 2 >>}

\* the ledger holds under k the entry of expiry e
Holds(k, e) == Has(FAULT_STATE, k) /\ FAULT_STATE[k].end_time = e

C20_EveryEntryRemoved ==
    \A k \in LedgerKeys : \A e \in 0..(MaxTime - 1) :
        Holds(k, e) ~> ~Holds(k, e)

----------------------------------------------------------------------------
(* C21: while the ledger holds no entry for a seeded grid asset, every     *)
(* status read taken after a tick has published its reading classifies it  *)
(* NORMAL, for every noise within 1 % of rated and every load sample of    *)
(* the tick and of the read.                                               *)
C21_SeededAssetsNormal ==
    [][ ReadStep
        => \A j \in 1..Len(assets) :
              ( /\ ~Has(FAULT_STATE, Key(assets[j].id, FALSE))
                /\ Has(SENSOR_STATE, Key(assets[j].id, FALSE)) )
              => status'[j].health_status = "NORMAL"
      ]_vars

====
